---------------------------- MODULE Spec2Model ----------------------------
(***************************************************************************)
(* RAMOS shell engine (src/src/main.rs): the key-event loop, the command   *)
(* interpreter, the persisted-state codec and the storage it talks to.     *)
(*                                                                         *)
(* A string is the sequence of its bytes (the shell only ever accepts      *)
(* ASCII, so bytes and chars coincide on every line the operator types).   *)
(* PersistedState is a record [vars, history, hints_shown]; vars is a      *)
(* function from key strings to value strings (a BTreeMap: iteration is in *)
(* ascending key order).                                                   *)
(***************************************************************************)
EXTENDS Integers, Sequences, FiniteSets, TLC

VARIABLES
    state,      \* PersistedState: [vars, history, hints_shown]
    lines,      \* Shell.lines, the scrollback
    input,      \* Shell.input, the line being edited
    disk,       \* the boot volume: EFI/RAMOS/state.txt
    running,    \* FALSE once reboot/shutdown has reset the machine
    committed,  \* every line committed with Enter this session, in order
    last,       \* the last commit: its line, the storage fault, the state before it
    call        \* the last key event, or the call of a routine examined on its own

vars == <<state, lines, input, disk, running, committed, last, call>>

---------------------------------------------------------------------------
(* Bounds of the model.                                                    *)

\* Enter is pressed at most this many times in a session.
MaxCommits == 2

\* The longest text handed to decode_base64 on its own.
MaxData == 5

\* The largest coordinate and the largest extent of a rectangle handed to
\* fill_rect on its own.
MaxCoord == 3

\* The longest text handed to draw_text on its own.
MaxText == 3

\* The longest line of the operator who types freely.
MaxInput == 2

---------------------------------------------------------------------------
(* Bytes with a meaning to the code.                                       *)

NL == 10
CR == 13
SP == 32
EQ == 61
UNDERSCORE == 95
\* parse_state reads the file once into a buffer of this size.
BufSize == 4096
\* Bytes of the framebuffer per pixel cell.
PxFormat == 4
\* draw_text advances the cursor by this many pixels per character.
GlyphWidth == 8
\* The geometry of redraw: the margin around the window, the height of the
\* title bar, the insets of the text, the rows above the scrollback, the rows
\* of the window that hold no scrollback, the height of a text row.
Margin == 20
TitleBar == 24
TextInset == 8
TitleInset == 6
HeaderHeight == 32
ChromeHeight == 64
LineHeight == 10

---------------------------------------------------------------------------
(* String literals of the source.                                          *)

\* "user"
KeyUser ==
    <<117, 115, 101, 114>>

\* "host"
KeyHost ==
    <<104, 111, 115, 116>>

\* "ramos"
DefaultName ==
    <<114, 97, 109, 111, 115>>

\* "_vault"
KeyVault ==
    <<95, 118, 97, 117, 108, 116>>

\* "UkFNT1N7RjB1bmRfM3ZlbjNfenJfc3Qwbmx5X2luX3RoZV9mdXR1cmV9"
VaultEncoded ==
    <<85, 107, 70, 78, 84, 49, 78, 55, 82, 106, 66, 49, 98, 109, 82, 102, 77, 51, 90, 108,
      98, 106, 78, 102, 101, 110, 74, 102, 99, 51, 81, 119, 98, 109, 120, 53, 88, 50, 108, 117,
      88, 51, 82, 111, 90, 86, 57, 109, 100, 88, 82, 49, 99, 109, 86, 57>>

\* "echo the vault lives under hidden keys"
HintHistory1 ==
    <<101, 99, 104, 111, 32, 116, 104, 101, 32, 118, 97, 117, 108, 116, 32, 108, 105, 118, 101, 115,
      32, 117, 110, 100, 101, 114, 32, 104, 105, 100, 100, 101, 110, 32, 107, 101, 121, 115>>

\* "echo base64 unlocks forgotten things"
HintHistory2 ==
    <<101, 99, 104, 111, 32, 98, 97, 115, 101, 54, 52, 32, 117, 110, 108, 111, 99, 107, 115, 32,
      102, 111, 114, 103, 111, 116, 116, 101, 110, 32, 116, 104, 105, 110, 103, 115>>

\* "No prior state found. Fresh session."
MsgNoPrior ==
    <<78, 111, 32, 112, 114, 105, 111, 114, 32, 115, 116, 97, 116, 101, 32, 102, 111, 117, 110, 100,
      46, 32, 70, 114, 101, 115, 104, 32, 115, 101, 115, 115, 105, 111, 110, 46>>

\* "Welcome to RAMOS meme OS (UEFI)"
MsgWelcome ==
    <<87, 101, 108, 99, 111, 109, 101, 32, 116, 111, 32, 82, 65, 77, 79, 83, 32, 109, 101, 109,
      101, 32, 79, 83, 32, 40, 85, 69, 70, 73, 41>>

\* "Type 'help' for commands."
MsgTypeHelp ==
    <<84, 121, 112, 101, 32, 39, 104, 101, 108, 112, 39, 32, 102, 111, 114, 32, 99, 111, 109, 109,
      97, 110, 100, 115, 46>>

\* "Hint: the vault remembers the curious."
MsgHint ==
    <<72, 105, 110, 116, 58, 32, 116, 104, 101, 32, 118, 97, 117, 108, 116, 32, 114, 101, 109, 101,
      109, 98, 101, 114, 115, 32, 116, 104, 101, 32, 99, 117, 114, 105, 111, 117, 115, 46>>

\* "Commands: help, about, clear, echo, set, get, vars, save, load, reboot, shutdown"
MsgHelp ==
    <<67, 111, 109, 109, 97, 110, 100, 115, 58, 32, 104, 101, 108, 112, 44, 32, 97, 98, 111, 117,
      116, 44, 32, 99, 108, 101, 97, 114, 44, 32, 101, 99, 104, 111, 44, 32, 115, 101, 116, 44,
      32, 103, 101, 116, 44, 32, 118, 97, 114, 115, 44, 32, 115, 97, 118, 101, 44, 32, 108, 111,
      97, 100, 44, 32, 114, 101, 98, 111, 111, 116, 44, 32, 115, 104, 117, 116, 100, 111, 119, 110>>

\* "RAMOS is a Rust UEFI meme OS with a hand-drawn UI."
MsgAbout ==
    <<82, 65, 77, 79, 83, 32, 105, 115, 32, 97, 32, 82, 117, 115, 116, 32, 85, 69, 70, 73,
      32, 109, 101, 109, 101, 32, 79, 83, 32, 119, 105, 116, 104, 32, 97, 32, 104, 97, 110, 100,
      45, 100, 114, 97, 119, 110, 32, 85, 73, 46>>

\* "ok"
MsgOk ==
    <<111, 107>>

\* "usage: set <key> <value>"
MsgUsageSet ==
    <<117, 115, 97, 103, 101, 58, 32, 115, 101, 116, 32, 60, 107, 101, 121, 62, 32, 60, 118, 97,
      108, 117, 101, 62>>

\* "(unset)"
MsgUnset ==
    <<40, 117, 110, 115, 101, 116, 41>>

\* "usage: get <key>"
MsgUsageGet ==
    <<117, 115, 97, 103, 101, 58, 32, 103, 101, 116, 32, 60, 107, 101, 121, 62>>

\* "state saved"
MsgStateSaved ==
    <<115, 116, 97, 116, 101, 32, 115, 97, 118, 101, 100>>

\* "save failed: "
MsgSaveFailed ==
    <<115, 97, 118, 101, 32, 102, 97, 105, 108, 101, 100, 58, 32>>

\* "state loaded"
MsgStateLoaded ==
    <<115, 116, 97, 116, 101, 32, 108, 111, 97, 100, 101, 100>>

\* "vault sealed"
MsgVaultSealed ==
    <<118, 97, 117, 108, 116, 32, 115, 101, 97, 108, 101, 100>>

\* "nothing here"
MsgNothingHere ==
    <<110, 111, 116, 104, 105, 110, 103, 32, 104, 101, 114, 101>>

\* "unknown command"
MsgUnknown ==
    <<117, 110, 107, 110, 111, 119, 110, 32, 99, 111, 109, 109, 97, 110, 100>>

\* "kv:"
PrefixKv ==
    <<107, 118, 58>>

\* "h:"
PrefixH ==
    <<104, 58>>

\* "hint:"
PrefixHint ==
    <<104, 105, 110, 116, 58>>

\* "hint:1\n"
HintRecord ==
    <<104, 105, 110, 116, 58, 49, 10>>

\* "@"
PromptAt ==
    <<64>>

\* ":> "
PromptSep ==
    <<58, 62, 32>>

\* ": "
IndexSep ==
    <<58, 32>>

\* "help"
CmdHelp ==
    <<104, 101, 108, 112>>

\* "about"
CmdAbout ==
    <<97, 98, 111, 117, 116>>

\* "clear"
CmdClear ==
    <<99, 108, 101, 97, 114>>

\* "echo"
CmdEcho ==
    <<101, 99, 104, 111>>

\* "set"
CmdSet ==
    <<115, 101, 116>>

\* "get"
CmdGet ==
    <<103, 101, 116>>

\* "vars"
CmdVars ==
    <<118, 97, 114, 115>>

\* "history"
CmdHistory ==
    <<104, 105, 115, 116, 111, 114, 121>>

\* "save"
CmdSave ==
    <<115, 97, 118, 101>>

\* "load"
CmdLoad ==
    <<108, 111, 97, 100>>

\* "reboot"
CmdReboot ==
    <<114, 101, 98, 111, 111, 116>>

\* "shutdown"
CmdShutdown ==
    <<115, 104, 117, 116, 100, 111, 119, 110>>

\* "flag"
CmdFlag ==
    <<102, 108, 97, 103>>

\* "ABCDEFGHIJKLMNOPQRSTUVWXYZabcdefghijklmnopqrstuvwxyz0123456789+/"
Base64Table ==
    <<65, 66, 67, 68, 69, 70, 71, 72, 73, 74, 75, 76, 77, 78, 79, 80, 81, 82, 83, 84,
      85, 86, 87, 88, 89, 90, 97, 98, 99, 100, 101, 102, 103, 104, 105, 106, 107, 108, 109, 110,
      111, 112, 113, 114, 115, 116, 117, 118, 119, 120, 121, 122, 48, 49, 50, 51, 52, 53, 54, 55,
      56, 57, 43, 47>>

\* "NOT_FOUND"
StatusNotFound ==
    <<78, 79, 84, 95, 70, 79, 85, 78, 68>>

\* "DEVICE_ERROR"
StatusDeviceError ==
    <<68, 69, 86, 73, 67, 69, 95, 69, 82, 82, 79, 82>>

\* "WRITE_PROTECTED"
StatusWriteProtected ==
    <<87, 82, 73, 84, 69, 95, 80, 82, 79, 84, 69, 67, 84, 69, 68>>

\* "Error { status: "
ErrDebugOpen ==
    <<69, 114, 114, 111, 114, 32, 123, 32, 115, 116, 97, 116, 117, 115, 58, 32>>

\* ", data: () }"
ErrDebugClose ==
    <<44, 32, 100, 97, 116, 97, 58, 32, 40, 41, 32, 125>>


---------------------------------------------------------------------------
(* Strings and maps.                                                       *)

Take(s, n) == SubSeq(s, 1, IF n < Len(s) THEN n ELSE Len(s))

Drop(s, n) == SubSeq(s, n + 1, Len(s))

StartsWith(s, p) == Len(p) <= Len(s) /\ SubSeq(s, 1, Len(p)) = p

\* Position of the first byte c of s, 0 when s has none.
IndexOf(s, c) ==
    IF \E i \in 1..Len(s) : s[i] = c
    THEN CHOOSE i \in 1..Len(s) : s[i] = c /\ \A j \in 1..(i - 1) : s[j] # c
    ELSE 0

\* String's Ord: byte-wise lexicographic, a proper prefix first.
LexLess(a, b) ==
    \E i \in 1..Len(b) :
        /\ i <= Len(a) + 1
        /\ \A j \in 1..(i - 1) : a[j] = b[j]
        /\ (i = Len(a) + 1 \/ a[i] < b[i])

\* The keys of a BTreeMap in iteration order.
RECURSIVE SortKeys(_)
SortKeys(S) ==
    IF S = {} THEN <<>>
    ELSE LET m == CHOOSE x \in S : \A y \in S \ {x} : LexLess(x, y)
         IN  <<m>> \o SortKeys(S \ {m})

RECURSIVE Flatten(_)
Flatten(ss) == IF ss = <<>> THEN <<>> ELSE Head(ss) \o Flatten(Tail(ss))

EmptyMap == [k \in {} |-> <<>>]

\* BTreeMap::insert: adds the key or replaces its value.
MapInsert(m, k, v) == [x \in DOMAIN m \cup {k} |-> IF x = k THEN v ELSE m[x]]

\* char::is_whitespace, on ASCII.
IsWhitespace(c) == c \in {9, 10, 11, 12, 13, SP}

\* char::is_ascii_graphic: U+0021 '!' ..= U+007E '~'.
IsAsciiGraphic(c) == c >= 33 /\ c <= 126

FirstWhitespace(s) ==
    IF \E i \in 1..Len(s) : IsWhitespace(s[i])
    THEN CHOOSE i \in 1..Len(s) :
             IsWhitespace(s[i]) /\ \A j \in 1..(i - 1) : ~IsWhitespace(s[j])
    ELSE Len(s) + 1

FirstNonWhitespace(s) ==
    IF \E i \in 1..Len(s) : ~IsWhitespace(s[i])
    THEN CHOOSE i \in 1..Len(s) :
             ~IsWhitespace(s[i]) /\ \A j \in 1..(i - 1) : IsWhitespace(s[j])
    ELSE Len(s) + 1

\* str::split_whitespace: the maximal runs of non-whitespace, in order.
RECURSIVE SplitWhitespace(_)
SplitWhitespace(s) ==
    LET t == Drop(s, FirstNonWhitespace(s) - 1)
    IN  IF t = <<>> THEN <<>>
        ELSE LET e == FirstWhitespace(t)
             IN  <<Take(t, e - 1)>> \o SplitWhitespace(Drop(t, e - 1))

\* A join that puts nothing between the tokens.
JoinTight(ts) == Flatten(ts)

\* [&str]::join(" ").
RECURSIVE JoinSpace(_)
JoinSpace(ts) ==
    IF ts = <<>> THEN <<>>
    ELSE IF Len(ts) = 1 THEN Head(ts)
    ELSE Head(ts) \o <<SP>> \o JoinSpace(Tail(ts))

\* A line of str::lines ended by '\n': the '\n' is gone, and one '\r' before it.
StripLineEnd(l) ==
    IF Len(l) > 0 /\ l[Len(l)] = CR THEN Take(l, Len(l) - 1) ELSE l

\* str::lines: split at '\n' (or "\r\n"); a last line without '\n' is kept as
\* it is, and a final '\n' opens no empty line.
RECURSIVE LinesOf(_)
LinesOf(content) ==
    IF content = <<>> THEN <<>>
    ELSE LET i == IndexOf(content, NL)
         IN  IF i = 0 THEN <<content>>
             ELSE <<StripLineEnd(Take(content, i - 1))>> \o LinesOf(Drop(content, i))

\* core::str::from_utf8 accepts exactly the well-formed UTF-8 byte sequences:
\* every byte is ASCII, or a lead byte followed by its continuation bytes, or a
\* continuation byte of the lead byte one, two or three places before it.
IsCont(b) == b >= 128 /\ b <= 191

\* The number of continuation bytes a lead byte asks for, -1 for a byte that
\* starts no sequence.
ContCount(c) ==
    IF c <= 127 THEN 0
    ELSE IF c >= 194 /\ c <= 223 THEN 1
    ELSE IF c >= 224 /\ c <= 239 THEN 2
    ELSE IF c >= 240 /\ c <= 244 THEN 3
    ELSE -1

\* The sequence starting at i is well formed.
WellFormedAt(b, i) ==
    LET k == ContCount(b[i])
    IN  /\ k >= 0
        /\ i + k <= Len(b)
        /\ \A j \in (i + 1)..(i + k) : IsCont(b[j])
        /\ (b[i] = 224 => b[i + 1] >= 160)
        /\ (b[i] = 237 => b[i + 1] <= 159)
        /\ (b[i] = 240 => b[i + 1] >= 144)
        /\ (b[i] = 244 => b[i + 1] <= 143)

ValidUtf8(b) ==
    \A i \in 1..Len(b) :
        IF IsCont(b[i])
        THEN \E j \in 1..(i - 1) :
                /\ i - j <= ContCount(b[j])
                /\ \A m \in (j + 1)..i : IsCont(b[m])
        ELSE WellFormedAt(b, i)

\* usize's Display: decimal, no padding.
RECURSIVE Decimal(_)
Decimal(n) ==
    IF n < 10 THEN <<48 + n>> ELSE Decimal(n \div 10) \o <<48 + (n % 10)>>

---------------------------------------------------------------------------
(* PersistedState and its codec.                                           *)

\* PersistedState::new
PersistedStateNew ==
    [vars |-> MapInsert(MapInsert(EmptyMap, KeyUser, DefaultName), KeyHost, DefaultName),
     history |-> <<>>,
     hints_shown |-> FALSE]

\* embed_flag without the insert of the vault.
EmbedFlagHintsOnly(st) ==
    [st EXCEPT !.history = @ \o <<HintHistory1, HintHistory2>>]

\* embed_flag
EmbedFlag(st) ==
    [st EXCEPT !.vars = MapInsert(@, KeyVault, VaultEncoded),
               !.history = @ \o <<HintHistory1, HintHistory2>>]

\* default_state: [state, out], out being what it prints.
DefaultState ==
    [state |-> EmbedFlag(PersistedStateNew), out |-> <<MsgNoPrior>>]

\* One "kv:" record of save_state.
KvRecord(k, v) == PrefixKv \o k \o <<EQ>> \o v \o <<NL>>

\* One "h:" record of save_state.
HRecord(h) == PrefixH \o h \o <<NL>>

\* The text save_state builds: the vars in key order, the history, the hint.
Serialize(st) ==
    LET ks == SortKeys(DOMAIN st.vars)
    IN  Flatten([i \in 1..Len(ks) |-> KvRecord(ks[i], st.vars[ks[i]])])
        \o Flatten([i \in 1..Len(st.history) |-> HRecord(st.history[i])])
        \o (IF st.hints_shown THEN HintRecord ELSE <<>>)

\* One line of the loop of parse_state.
ParseLine(st, line) ==
    IF StartsWith(line, PrefixKv)
    THEN LET rest == Drop(line, Len(PrefixKv))
             i    == IndexOf(rest, EQ)
         IN  IF i > 0
             THEN [st EXCEPT !.vars = MapInsert(@, Take(rest, i - 1), Drop(rest, i))]
             ELSE st
    ELSE IF StartsWith(line, PrefixH)
    THEN [st EXCEPT !.history = Append(@, Drop(line, Len(PrefixH)))]
    ELSE IF StartsWith(line, PrefixHint)
    THEN [st EXCEPT !.hints_shown = TRUE]
    ELSE st

RECURSIVE ParseLines(_, _)
ParseLines(st, ls) ==
    IF ls = <<>> THEN st ELSE ParseLines(ParseLine(st, Head(ls)), Tail(ls))

\* parse_state seeding whatever it parsed.
ParseContentAlwaysSeeds(content) ==
    EmbedFlag(ParseLines(PersistedStateNew, LinesOf(content)))

\* parse_state from the text on: the records, then the seeding.
ParseContent(content) ==
    LET st == ParseLines(PersistedStateNew, LinesOf(content))
    IN  IF KeyVault \notin DOMAIN st.vars THEN EmbedFlag(st) ELSE st

\* file.read(&mut buf).unwrap_or(0): one read of at most BufSize bytes.
ReadBuf(data, readFails) == IF readFails THEN <<>> ELSE Take(data, BufSize)

\* core::str::from_utf8(..).unwrap_or("")
Utf8OrEmpty(buf) == IF ValidUtf8(buf) THEN buf ELSE <<>>

\* parse_state
ParseState(data, readFails) == ParseContent(Utf8OrEmpty(ReadBuf(data, readFails)))

---------------------------------------------------------------------------
(* The storage collaborator: the volume holds the directories EFI and      *)
(* EFI/RAMOS and the file EFI/RAMOS/state.txt.  During one save or load it *)
(* behaves in one of these ways:                                           *)
(*   none           every call succeeds                                    *)
(*   create         nothing can be created or opened for writing           *)
(*   open_efi       opening EFI fails                                      *)
(*   open_ramos     opening EFI/RAMOS fails                                *)
(*   open_file      opening state.txt fails                                *)
(*   read           reading state.txt fails                                *)
(*   write          the write fails, no byte written                       *)
(*   write_partial  the write fails after half of the bytes                *)
(*   flush          the flush fails, the bytes written do not reach disk   *)

NoFile == [exists |-> FALSE, data |-> <<>>]

FileOf(data) == [exists |-> TRUE, data |-> data]

LoadFaults == {"none", "create", "open_efi", "open_ramos", "open_file", "read"}

SaveFaults ==
    {"none", "create", "open_efi", "open_ramos", "open_file",
     "write", "write_partial", "flush"}

\* ensure_dir: whether the directory exists afterwards.  When the open fails the
\* directory is created, and a failure of that is ignored.
EnsureDir(exists, f) == exists \/ f # "create"

\* The status of a failed open.
OpenStatus(exists, f) ==
    IF f = "create" /\ exists THEN "WRITE_PROTECTED"
    ELSE IF ~exists THEN "NOT_FOUND"
    ELSE "DEVICE_ERROR"

\* The bytes of `data` that reach the file.
BytesWritten(data, f) ==
    IF f \in {"write", "flush"} THEN 0
    ELSE IF f = "write_partial" THEN Len(data) \div 2
    ELSE Len(data)

\* set_position(0) and write on a file opened without truncation: the bytes
\* written replace the first bytes of the file, the bytes after them stay.
WriteAtStart(old, bytes) == bytes \o Drop(old, Len(bytes))

\* save_state: [disk, err]; err is "none" for Ok(()).  The results of write and
\* flush are dropped (let _ =).
SaveState(st, d, f) ==
    LET d1 == [d EXCEPT !.efi = EnsureDir(d.efi, f)]
    IN  IF ~d1.efi \/ f = "open_efi"
        THEN [disk |-> d1, err |-> OpenStatus(d1.efi, f)]
        ELSE
        LET d2 == [d1 EXCEPT !.ramos = EnsureDir(d.ramos, f)]
        IN  IF ~d2.ramos \/ f = "open_ramos"
            THEN [disk |-> d2, err |-> OpenStatus(d2.ramos, f)]
            ELSE IF f \in {"open_file", "create"}
            THEN [disk |-> d2, err |-> OpenStatus(TRUE, f)]
            ELSE
            LET data == Serialize(st)
                now  == WriteAtStart(d.file.data, Take(data, BytesWritten(data, f)))
            IN  [disk |-> [d2 EXCEPT !.file = FileOf(now)], err |-> "none"]

\* load_state: [disk, state, out], out being what it prints.
LoadState(d, f) ==
    LET d1 == [d EXCEPT !.efi = EnsureDir(d.efi, f)]
    IN  IF ~d1.efi \/ f = "open_efi"
        THEN [disk |-> d1, state |-> DefaultState.state, out |-> DefaultState.out]
        ELSE
        LET d2 == [d1 EXCEPT !.ramos = EnsureDir(d.ramos, f)]
        IN  IF ~d2.ramos \/ f = "open_ramos"
            THEN [disk |-> d2, state |-> DefaultState.state, out |-> DefaultState.out]
            ELSE IF ~d.file.exists \/ f = "open_file"
            THEN [disk |-> d2,
                  state |-> EmbedFlag(DefaultState.state),
                  out |-> DefaultState.out]
            ELSE [disk |-> d2,
                  state |-> ParseState(d.file.data, f = "read"),
                  out |-> <<>>]

\* {:?} of a uefi::Error.
StatusName(e) ==
    IF e = "NOT_FOUND" THEN StatusNotFound
    ELSE IF e = "WRITE_PROTECTED" THEN StatusWriteProtected
    ELSE StatusDeviceError

ErrDebug(e) == ErrDebugOpen \o StatusName(e) \o ErrDebugClose

---------------------------------------------------------------------------
(* decode_base64                                                           *)

\* TABLE.iter().position(..): the 6-bit value of a symbol, -1 for any other byte.
TablePos(b) == IndexOf(Base64Table, b) - 1

\* The output bytes of a group of 4, 3 or 2 symbols (u8 shifts drop the high bits).
Byte1(c) == ((c[1] * 4) % 256) + (c[2] \div 16)
\* The second byte without the loss of the bits shifted out of the u8.
Byte2Wide(c) == (c[2] * 16) + (c[3] \div 4)

Byte2(c) == ((c[2] * 16) % 256) + (c[3] \div 4)
Byte3(c) == ((c[3] * 64) % 256) + c[4]

\* The loop over data.bytes() from byte i on: chunk holds the idx symbols of the
\* group being filled, out the bytes pushed so far.
RECURSIVE DecodeLoop(_, _, _, _)
DecodeLoop(data, i, chunk, out) ==
    IF i > Len(data) \/ data[i] = EQ THEN [chunk |-> chunk, out |-> out]
    ELSE LET pos == TablePos(data[i])
         IN  IF pos < 0 THEN DecodeLoop(data, i + 1, chunk, out)
             ELSE LET c == Append(chunk, pos)
                  IN  IF Len(c) = 4
                      THEN DecodeLoop(data, i + 1, <<>>,
                                      out \o <<Byte1(c), Byte2(c), Byte3(c)>>)
                      ELSE DecodeLoop(data, i + 1, c, out)

\* The bytes decode_base64 hands to String::from_utf8.
DecodeBytes(data) ==
    LET r == DecodeLoop(data, 1, <<>>, <<>>)
        c == r.chunk
    IN  IF Len(c) = 3 THEN r.out \o <<Byte1(c), Byte2(c)>>
        ELSE IF Len(c) = 2 THEN r.out \o <<Byte1(c)>>
        ELSE r.out

\* decode_base64: [ok, text]; ok is FALSE for None.
DecodeBase64(data) ==
    LET b == DecodeBytes(data)
    IN  IF ValidUtf8(b) THEN [ok |-> TRUE, text |-> b] ELSE [ok |-> FALSE, text |-> <<>>]

---------------------------------------------------------------------------
(* Shell::execute.  A command works on c = [state, lines, disk, running]:  *)
(* the PersistedState, the scrollback, the volume and whether the machine  *)
(* is still up.                                                            *)

\* Shell::println
Println(c, text) == [c EXCEPT !.lines = Append(@, text)]

\* vars.get(k).unwrap_or("ramos")
NameOr(st, k) == IF k \in DOMAIN st.vars THEN st.vars[k] ELSE DefaultName

\* The prompt: "{user}@{host}:> {line}".
Prompt(st, line) ==
    NameOr(st, KeyUser) \o PromptAt \o NameOr(st, KeyHost) \o PromptSep \o line

\* set storing the key when the value is missing.
ExecSetKeyOnly(args, c) ==
    IF Len(args) >= 1
    THEN Println([c EXCEPT !.state.vars =
                     MapInsert(@, args[1], IF Len(args) >= 2 THEN args[2] ELSE <<>>)],
                 MsgOk)
    ELSE Println(c, MsgUsageSet)

ExecSet(args, c) ==
    IF Len(args) >= 2
    THEN Println([c EXCEPT !.state.vars = MapInsert(@, args[1], args[2])], MsgOk)
    ELSE Println(c, MsgUsageSet)

\* get treating the keys starting with '_' as hidden, like vars does.
ExecGetHidesUnderscore(args, c) ==
    IF Len(args) >= 1
    THEN IF args[1] \in DOMAIN c.state.vars /\ ~StartsWith(args[1], <<UNDERSCORE>>)
         THEN Println(c, c.state.vars[args[1]])
         ELSE Println(c, MsgUnset)
    ELSE Println(c, MsgUsageGet)

ExecGet(args, c) ==
    IF Len(args) >= 1
    THEN IF args[1] \in DOMAIN c.state.vars
         THEN Println(c, c.state.vars[args[1]])
         ELSE Println(c, MsgUnset)
    ELSE Println(c, MsgUsageGet)

\* vars without the filter on the leading underscore.
ExecVarsShowsAll(c) ==
    LET show == SortKeys(DOMAIN c.state.vars)
    IN  [c EXCEPT !.lines =
            @ \o [i \in 1..Len(show) |-> show[i] \o <<EQ>> \o c.state.vars[show[i]]]]

ExecVars(c) ==
    LET ks   == SortKeys(DOMAIN c.state.vars)
        show == SelectSeq(ks, LAMBDA k : ~StartsWith(k, <<UNDERSCORE>>))
    IN  [c EXCEPT !.lines =
            @ \o [i \in 1..Len(show) |-> show[i] \o <<EQ>> \o c.state.vars[show[i]]]]

\* history counting from one.
ExecHistoryFromOne(c) ==
    LET h == c.state.history
    IN  [c EXCEPT !.lines = @ \o [i \in 1..Len(h) |-> Decimal(i) \o IndexSep \o h[i]]]

ExecHistory(c) ==
    LET h == c.state.history
    IN  [c EXCEPT !.lines = @ \o [i \in 1..Len(h) |-> Decimal(i - 1) \o IndexSep \o h[i]]]

ExecSave(c, f) ==
    LET r == SaveState(c.state, c.disk, f)
        d == [c EXCEPT !.disk = r.disk]
    IN  IF r.err # "none"
        THEN Println(d, MsgSaveFailed \o ErrDebug(r.err))
        ELSE Println(d, MsgStateSaved)

ExecLoad(c, f) ==
    LET r == LoadState(c.disk, f)
    IN  Println([c EXCEPT !.state = r.state, !.disk = r.disk, !.lines = @ \o r.out],
                MsgStateLoaded)

\* reboot, shutdown: the reset does not return.
ExecReset(c) == [c EXCEPT !.running = FALSE]

\* flag printing the stored value as it is.
ExecFlagPrintsStored(c) ==
    IF KeyVault \in DOMAIN c.state.vars
    THEN Println(c, c.state.vars[KeyVault])
    ELSE Println(c, MsgNothingHere)

ExecFlag(c) ==
    IF KeyVault \in DOMAIN c.state.vars
    THEN LET r == DecodeBase64(c.state.vars[KeyVault])
         IN  IF r.ok THEN Println(c, r.text) ELSE Println(c, MsgVaultSealed)
    ELSE Println(c, MsgNothingHere)

\* A clear that keeps the echo of its own line.
ExecClearKeepsEcho(c) == [c EXCEPT !.lines = <<@[Len(@)]>>]

\* clear
ExecClear(c) == [c EXCEPT !.lines = <<>>]

\* The match on the first token.
Dispatch(cmd, args, c, f) ==
    IF cmd = CmdHelp THEN Println(c, MsgHelp)
    ELSE IF cmd = CmdAbout THEN Println(c, MsgAbout)
    ELSE IF cmd = CmdClear THEN ExecClear(c)
    ELSE IF cmd = CmdEcho THEN Println(c, JoinSpace(args))
    ELSE IF cmd = CmdSet THEN ExecSet(args, c)
    ELSE IF cmd = CmdGet THEN ExecGet(args, c)
    ELSE IF cmd = CmdVars THEN ExecVars(c)
    ELSE IF cmd = CmdHistory THEN ExecHistory(c)
    ELSE IF cmd = CmdSave THEN ExecSave(c, f)
    ELSE IF cmd = CmdLoad THEN ExecLoad(c, f)
    ELSE IF cmd \in {CmdReboot, CmdShutdown} THEN ExecReset(c)
    ELSE IF cmd = CmdFlag THEN ExecFlag(c)
    ELSE Println(c, MsgUnknown)

\* Shell::execute
Execute(line, c, f) ==
    LET c1    == Println(c, Prompt(c.state, line))
        parts == SplitWhitespace(line)
    IN  IF line = <<>> \/ parts = <<>> THEN c1
        ELSE Dispatch(Head(parts), Tail(parts), c1, f)

\* The ENTER arm without the is_empty test.
PushHistoryAlways(st, line) == [st EXCEPT !.history = Append(@, line)]

\* The ENTER arm before execute: a non-empty line goes to the history.
PushHistory(st, line) ==
    IF line # <<>> THEN [st EXCEPT !.history = Append(@, line)] ELSE st

---------------------------------------------------------------------------
(* What the operator types and what the volume holds at boot.              *)

\* "set k v"
LineSetKV ==
    <<115, 101, 116, 32, 107, 32, 118>>

\* "get k"
LineGetK ==
    <<103, 101, 116, 32, 107>>

\* "set a=b c"
LineSetEq ==
    <<115, 101, 116, 32, 97, 61, 98, 32, 99>>

\* "set _vault x"
LineSetVault ==
    <<115, 101, 116, 32, 95, 118, 97, 117, 108, 116, 32, 120>>

\* "get _vault"
LineGetVault ==
    <<103, 101, 116, 32, 95, 118, 97, 117, 108, 116>>

\* "set k"
LineSetNoValue ==
    <<115, 101, 116, 32, 107>>

\* " "
LineBlank ==
    <<32>>

\* "zz"
LineBogus ==
    <<122, 122>>

\* "kv:_vault=aGk=\r\nnote\nkv:bad\nh:ls\nkv:_vault=eA\n"
ForeignFile ==
    <<107, 118, 58, 95, 118, 97, 117, 108, 116, 61, 97, 71, 107, 61, 13, 10, 110, 111, 116, 101,
      10, 107, 118, 58, 98, 97, 100, 10, 104, 58, 108, 115, 10, 107, 118, 58, 95, 118, 97, 117,
      108, 116, 61, 101, 65, 10>>

\* The lines the operator commits.
TypedLines ==
    {<<>>, CmdSave, CmdLoad, LineSetKV, LineGetK, LineSetEq, LineSetVault,
     LineGetVault, LineSetNoValue, CmdGet, LineBlank, LineBogus}

\* The characters the keyboard sends: those of the lines, a tab and U+00E9.
\* The characters the keyboard delivers: those of the lines, a tab and a
\* non-ASCII letter.
KeyboardChars(T) ==
    UNION {{l[i] : i \in 1..Len(l)} : l \in T} \cup {9, 233}

TypedChars == KeyboardChars(TypedLines)

IsTypedPrefix(s, T) == \E l \in T : StartsWith(l, s)

\* The storage behaviours a line can meet.
FaultsFor(line) ==
    LET parts == SplitWhitespace(line)
    IN  IF parts # <<>> /\ Head(parts) = CmdSave THEN SaveFaults
        ELSE IF parts # <<>> /\ Head(parts) = CmdLoad THEN LoadFaults
        ELSE {"none"}

\* state.txt as an earlier session left it: first boot on a volume without the
\* file, the hint shown, then the command save.
EarlierSessionFile ==
    LET boot == LoadState([efi |-> TRUE, ramos |-> TRUE, file |-> NoFile], "none").state
    IN  Serialize([boot EXCEPT !.hints_shown = TRUE, !.history = Append(@, CmdSave)])

\* A file that is not UTF-8.
BrokenFile == PrefixKv \o KeyUser \o <<EQ, 255, NL>>

VolumeWith(file) == [efi |-> TRUE, ramos |-> TRUE, file |-> file]

InitDisks ==
    {[efi |-> FALSE, ramos |-> FALSE, file |-> NoFile],
     VolumeWith(NoFile),
     VolumeWith(FileOf(EarlierSessionFile)),
     VolumeWith(FileOf(BrokenFile)),
     VolumeWith(FileOf(ForeignFile))}

---------------------------------------------------------------------------
(* efi_main: the boot and the key loop.                                    *)

\* The storage behaviours met at boot (a load command meets all of LoadFaults).
BootFaults == {"none", "create"}

Ctx == [state |-> state, lines |-> lines, disk |-> disk, running |-> running]

\* No key has been read yet and no routine is examined on its own.
NoCall == [fn |-> "none"]

\* Shell::push_char
PushChar(s, ch) ==
    IF IsAsciiGraphic(ch) \/ ch = SP THEN Append(s, ch) ELSE s

\* A backspace that empties the line.
BackspaceClears(s) == <<>>

\* Shell::backspace (String::pop)
Backspace(s) == Take(s, Len(s) - 1)

\* Shell::clear_input
ClearInput(s) == <<>>

\* Shell::take_input: the line handed over and the input left behind
TakeInput(s) == [line |-> s, input |-> <<>>]

\* Until the first Enter, `last` holds the boot: the volume it found and the
\* state load_state returned.
Boot ==
    \E d \in InitDisks, f \in BootFaults :
        LET r  == LoadState(d, f)
            ls == r.out \o <<MsgWelcome, MsgTypeHelp>>
                  \o (IF ~r.state.hints_shown THEN <<MsgHint>> ELSE <<>>)
        IN  /\ state = [r.state EXCEPT !.hints_shown = TRUE]
            /\ lines = ls
            /\ input = <<>>
            /\ disk = r.disk
            /\ running = TRUE
            /\ committed = <<>>
            /\ last = [kind |-> "boot", line |-> <<>>, fault |-> f,
                       state |-> r.state, lines |-> <<>>, disk |-> d]

Init == Boot /\ call = NoCall

\* Key::Printable(ch): push_char
KeyChar(T, ch) ==
    /\ running
    /\ Len(committed) < MaxCommits
    /\ IsTypedPrefix(PushChar(input, ch), T)
    /\ input' = PushChar(input, ch)
    /\ UNCHANGED <<state, lines, disk, running, committed, last>>

KeyPrintable(T) == \E ch \in KeyboardChars(T) : KeyChar(T, ch)

\* BACKSPACE: String::pop
KeyBackspace ==
    /\ running
    /\ Len(committed) < MaxCommits
    /\ input' = Backspace(input)
    /\ UNCHANGED <<state, lines, disk, running, committed, last>>

\* ESCAPE: clear_input
KeyEscape ==
    /\ running
    /\ Len(committed) < MaxCommits
    /\ input' = ClearInput(input)
    /\ UNCHANGED <<state, lines, disk, running, committed, last>>

\* ENTER: take_input, the history, execute
KeyEnter(T) ==
    /\ running
    /\ Len(committed) < MaxCommits
    /\ input \in T
    /\ \E f \in FaultsFor(input) :
        LET line == TakeInput(input).line
            c == Execute(line, [Ctx EXCEPT !.state = PushHistory(state, line)], f)
        IN  /\ state' = c.state
            /\ lines' = c.lines
            /\ disk' = c.disk
            /\ running' = c.running
            /\ last' = [kind |-> "enter", line |-> line, fault |-> f,
                        state |-> state, lines |-> lines, disk |-> disk]
    /\ input' = TakeInput(input).input
    /\ committed' = Append(committed, input)

\* Any other key.
KeyOther ==
    /\ running
    /\ Len(committed) < MaxCommits
    /\ UNCHANGED <<state, lines, input, disk, running, committed, last>>

Next ==
    \/ KeyPrintable(TypedLines) /\ UNCHANGED call
    \/ KeyBackspace /\ UNCHANGED call
    \/ KeyEscape /\ UNCHANGED call
    \/ KeyEnter(TypedLines) /\ UNCHANGED call
    \/ KeyOther /\ UNCHANGED call

Spec == Init /\ [][Next]_vars

---------------------------------------------------------------------------
(* The same loop with an operator who uses the commands that print: vars,  *)
(* history, flag, echo, clear, after sets of underscore keys.              *)

\* "echo  hi   yo "
LineEcho ==
    <<101, 99, 104, 111, 32, 32, 104, 105, 32, 32, 32, 121, 111, 32>>

\* "set _k v"
LineSetHidden ==
    <<115, 101, 116, 32, 95, 107, 32, 118>>

\* "set _vault /w"
LineSetVaultBad ==
    <<115, 101, 116, 32, 95, 118, 97, 117, 108, 116, 32, 47, 119>>

CommandLines ==
    {CmdVars, CmdHistory, CmdFlag, CmdClear, LineEcho, LineSetKV, LineSetHidden,
     LineSetVault, LineSetVaultBad}

NextCommands ==
    \/ KeyPrintable(CommandLines) /\ UNCHANGED call
    \/ KeyBackspace /\ UNCHANGED call
    \/ KeyEscape /\ UNCHANGED call
    \/ KeyEnter(CommandLines) /\ UNCHANGED call
    \/ KeyOther /\ UNCHANGED call

SpecCommands == Init /\ [][NextCommands]_vars

---------------------------------------------------------------------------
(* The same loop with an operator who types freely: any line over 'a', '~' *)
(* and the space, on a keyboard that also delivers a tab, a control        *)
(* character, DEL and a non-ASCII letter.  `call` records the key read and *)
(* the shell before it.  Enter is pressed once in the session.             *)

EditLines == UNION {[1..n -> {97, 126, SP}] : n \in 0..MaxInput}

NextEdit ==
    \/ \E ch \in KeyboardChars(EditLines) \cup {31, 127} :
          /\ KeyChar(EditLines, ch)
          /\ call' = [fn |-> "key", key |-> "char", ch |-> ch,
                      input |-> input, lines |-> lines, state |-> state]
    \/ /\ KeyBackspace
       /\ call' = [fn |-> "key", key |-> "backspace", ch |-> 0,
                   input |-> input, lines |-> lines, state |-> state]
    \/ /\ KeyEscape
       /\ call' = [fn |-> "key", key |-> "escape", ch |-> 0,
                   input |-> input, lines |-> lines, state |-> state]
    \/ /\ committed = <<>>
       /\ KeyEnter(EditLines)
       /\ call' = [fn |-> "key", key |-> "enter", ch |-> 0,
                   input |-> input, lines |-> lines, state |-> state]
    \/ /\ KeyOther
       /\ call' = [fn |-> "key", key |-> "other", ch |-> 0,
                   input |-> input, lines |-> lines, state |-> state]

SpecEdit == Init /\ [][NextEdit]_vars

---------------------------------------------------------------------------
(* decode_base64 on its own: one call on a text over a few bytes.          *)

\* The shell is not part of the call: its fields stay as Shell::new and
\* PersistedState::new make them.
ShellAside ==
    /\ state = PersistedStateNew
    /\ lines = <<>>
    /\ input = <<>>
    /\ disk = VolumeWith(NoFile)
    /\ running = TRUE
    /\ committed = <<>>
    /\ last = [kind |-> "none"]

\* 'A' (symbol 0), 'V' (21), 'q' (42), '/' (63), '=' and '-' (not in the table).
DecodeBytesIn == {65, 86, 113, 47, EQ, 45}

DecodeInputs == UNION {[1..n -> DecodeBytesIn] : n \in 0..MaxData}

InitDecode ==
    /\ ShellAside
    /\ \E d \in DecodeInputs :
          call = [fn |-> "decode_base64", data |-> d, returned |-> FALSE]

CallDecode ==
    /\ call.fn = "decode_base64"
    /\ ~call.returned
    /\ call' = [fn |-> "decode_base64", data |-> call.data, returned |-> TRUE,
                bytes |-> DecodeBytes(call.data), result |-> DecodeBase64(call.data)]
    /\ UNCHANGED <<state, lines, input, disk, running, committed, last>>

NextDecode == CallDecode

SpecDecode == InitDecode /\ [][NextDecode]_vars

---------------------------------------------------------------------------
(* fill_rect on its own: one call on a small frame.  The buffer is the     *)
(* sequence of its bytes, byte idx of the code at position idx + 1.        *)

WindowColor == <<26, 34, 52>>

\* The byte offsets of the cells the two loops visit and do not skip.
FillOffsets(len, stride, x, y, w, h) ==
    {idx \in {(row * stride * PxFormat) + (col * PxFormat) :
                 row \in y..(y + h - 1), col \in x..(x + w - 1)} :
        ~(idx + 3 > len)}

\* Shell::fill_rect: the buffer after the call.
FillRect(buffer, stride, x, y, w, h, color) ==
    LET at == FillOffsets(Len(buffer), stride, x, y, w, h)
    IN  [i \in 1..Len(buffer) |->
            IF (i - 1) \in at THEN color[3]
            ELSE IF (i - 2) \in at THEN color[2]
            ELSE IF (i - 3) \in at THEN color[1]
            ELSE buffer[i]]

\* Frames of height x stride cells; in the second the stride exceeds the width.
FillFrames ==
    {[width |-> 2, height |-> 2, stride |-> 2],
     [width |-> 2, height |-> 3, stride |-> 3]}

\* What an earlier repaint left in the buffer; no byte is one of WindowColor.
PaintedBefore(g) == [i \in 1..(g.height * g.stride * PxFormat) |-> 100 + (i % 100)]

InitFill ==
    /\ ShellAside
    /\ \E g \in FillFrames, x, y, w, h \in 0..MaxCoord :
          call = [fn |-> "fill_rect", frame |-> g, before |-> PaintedBefore(g),
                  x |-> x, y |-> y, w |-> w, h |-> h, color |-> WindowColor,
                  returned |-> FALSE]

CallFill ==
    /\ call.fn = "fill_rect"
    /\ ~call.returned
    /\ call' = [call EXCEPT !.returned = TRUE] @@
                [buffer |-> FillRect(call.before, call.frame.stride, call.x, call.y,
                                     call.w, call.h, call.color)]
    /\ UNCHANGED <<state, lines, input, disk, running, committed, last>>

NextFill == CallFill

SpecFill == InitFill /\ [][NextFill]_vars

---------------------------------------------------------------------------
(* draw_text on its own.  What it draws is the sequence of its calls of    *)
(* font8x8::render_char: the cell's left edge and row, the character and   *)
(* the two colors.                                                         *)

TextColor == <<214, 214, 214>>

\* The loop that also draws the glyph whose right edge is the frame's.
RECURSIVE DrawTextUpToEdge(_, _, _, _, _, _)
DrawTextUpToEdge(width, cursor_x, y, text, fg, bg) ==
    IF text = <<>> \/ cursor_x + GlyphWidth > width THEN <<>>
    ELSE <<[x |-> cursor_x, y |-> y, ch |-> Head(text), fg |-> fg, bg |-> bg]>>
         \o DrawTextUpToEdge(width, cursor_x + GlyphWidth, y, Tail(text), fg, bg)

\* Shell::draw_text, from the character under the cursor on.
RECURSIVE DrawText(_, _, _, _, _, _)
DrawText(width, cursor_x, y, text, fg, bg) ==
    IF text = <<>> \/ cursor_x + GlyphWidth >= width THEN <<>>
    ELSE <<[x |-> cursor_x, y |-> y, ch |-> Head(text), fg |-> fg, bg |-> bg]>>
         \o DrawText(width, cursor_x + GlyphWidth, y, Tail(text), fg, bg)

TextWidths == {8, 16, 20, 33}

TextStarts == {0, 1, 8, 12, 25, 40}

\* Texts over 'a' and 'b'.
TextInputs == UNION {[1..n -> {97, 98}] : n \in 0..MaxText}

InitText ==
    /\ ShellAside
    /\ \E width \in TextWidths, x \in TextStarts, text \in TextInputs :
          call = [fn |-> "draw_text", width |-> width, x |-> x, y |-> 0,
                  text |-> text, returned |-> FALSE]

CallText ==
    /\ call.fn = "draw_text"
    /\ ~call.returned
    /\ call' = [call EXCEPT !.returned = TRUE] @@
                [glyphs |-> DrawText(call.width, call.x, call.y, call.text,
                                     TextColor, WindowColor)]
    /\ UNCHANGED <<state, lines, input, disk, running, committed, last>>

NextText == CallText

SpecText == InitText /\ [][NextText]_vars

---------------------------------------------------------------------------
(* redraw, and the key loop with the repaint that ends every key event.    *)
(* A repaint is the sequence of its fill_rect and draw_text calls.         *)

BgColor == <<12, 16, 26>>

TitleColor == <<118, 189, 230>>

PromptColor == <<136, 224, 144>>

\* "RAMOS :: meme UEFI shell"
TitleText ==
    <<82, 65, 77, 79, 83, 32, 58, 58, 32, 109, 101, 109, 101, 32, 85, 69, 70, 73, 32, 115,
      104, 101, 108, 108>>

\* A repaint that starts at the first scrollback line.
RedrawFromTop(g, st, ls, inp) ==
    LET win_w     == g.width - (Margin * 2)
        win_h     == g.height - (Margin * 2)
        start_y   == Margin + HeaderHeight
        max_lines == (win_h - ChromeHeight) \div LineHeight
    IN  <<[op |-> "fill_rect", x |-> 0, y |-> 0, w |-> g.width, h |-> g.height,
           color |-> BgColor],
          [op |-> "fill_rect", x |-> Margin, y |-> Margin, w |-> win_w, h |-> win_h,
           color |-> WindowColor],
          [op |-> "fill_rect", x |-> Margin, y |-> Margin, w |-> win_w, h |-> TitleBar,
           color |-> TitleColor],
          [op |-> "draw_text", x |-> Margin + TextInset, y |-> Margin + TitleInset,
           text |-> TitleText, fg |-> TextColor, bg |-> TitleColor]>>
        \o [idx \in 1..Len(ls) |->
              [op |-> "draw_text", x |-> Margin + TextInset,
               y |-> start_y + ((idx - 1) * LineHeight),
               text |-> ls[idx], fg |-> TextColor, bg |-> WindowColor]]
        \o <<[op |-> "draw_text", x |-> Margin + TextInset,
              y |-> start_y + (max_lines * LineHeight),
              text |-> Prompt(st, inp), fg |-> PromptColor, bg |-> WindowColor]>>

\* Shell::redraw on the frame g: the calls it makes, in order.
Redraw(g, st, ls, inp) ==
    LET win_w      == g.width - (Margin * 2)
        win_h      == g.height - (Margin * 2)
        start_y    == Margin + HeaderHeight
        max_lines  == (win_h - ChromeHeight) \div LineHeight
        start_line == IF Len(ls) > max_lines THEN Len(ls) - max_lines ELSE 0
        shown      == Drop(ls, start_line)
    IN  <<[op |-> "fill_rect", x |-> 0, y |-> 0, w |-> g.width, h |-> g.height,
           color |-> BgColor],
          [op |-> "fill_rect", x |-> Margin, y |-> Margin, w |-> win_w, h |-> win_h,
           color |-> WindowColor],
          [op |-> "fill_rect", x |-> Margin, y |-> Margin, w |-> win_w, h |-> TitleBar,
           color |-> TitleColor],
          [op |-> "draw_text", x |-> Margin + TextInset, y |-> Margin + TitleInset,
           text |-> TitleText, fg |-> TextColor, bg |-> TitleColor]>>
        \o [idx \in 1..Len(shown) |->
              [op |-> "draw_text", x |-> Margin + TextInset,
               y |-> start_y + ((idx - 1) * LineHeight),
               text |-> shown[idx], fg |-> TextColor, bg |-> WindowColor]]
        \o <<[op |-> "draw_text", x |-> Margin + TextInset,
              y |-> start_y + (max_lines * LineHeight),
              text |-> Prompt(st, inp), fg |-> PromptColor, bg |-> WindowColor]>>

\* Frames whose window holds 0, 2 and 6 scrollback rows.
RedrawFrames ==
    {[width |-> 320, height |-> 104, stride |-> 320],
     [width |-> 320, height |-> 124, stride |-> 320],
     [width |-> 320, height |-> 164, stride |-> 320]}

\* The operator lists the vars, clears the screen, or types on.
ScreenLines == {CmdVars, CmdClear}

\* shell.redraw(&state) at the end of the key event.
Repaint ==
    call' = [fn |-> "redraw", frame |-> call.frame,
             calls |-> Redraw(call.frame, state', lines', input')]

InitScreen ==
    /\ Boot
    /\ \E g \in RedrawFrames :
          call = [fn |-> "redraw", frame |-> g, calls |-> Redraw(g, state, lines, input)]

NextScreen ==
    \/ KeyPrintable(ScreenLines) /\ Repaint
    \/ KeyBackspace /\ Repaint
    \/ KeyEscape /\ Repaint
    \/ KeyEnter(ScreenLines) /\ Repaint
    \/ KeyOther /\ Repaint

SpecScreen == InitScreen /\ [][NextScreen]_vars

---------------------------------------------------------------------------
(* What a commit did, read off `last` and the state after it.              *)

IsEnter == last.kind = "enter"

LastParts == SplitWhitespace(last.line)

\* The last commit ran the command cmd.
LastCmd(cmd) == IsEnter /\ LastParts # <<>> /\ Head(LastParts) = cmd

\* The scrollback lines the last commit appended after its prompt echo.
Output == Drop(lines, Len(last.lines) + 1)

\* The last commit appended its prompt echo and then exactly the lines out.
Appended(out) == lines = last.lines \o <<Prompt(last.state, last.line)>> \o out

SameVarsAndHistory(s, t) == s.vars = t.vars /\ s.history = t.history

\* The file a load would parse.
StoredText == disk.file.data

---------------------------------------------------------------------------
(* C1  Round trip of the state codec: parsing the serialization of the     *)
(* current PersistedState gives back its vars and, in order, its history.  *)
C1_RoundTrip ==
    SameVarsAndHistory(ParseState(Serialize(state), FALSE), state)

(* C2  After a save that met no storage failure, state.txt holds exactly   *)
(* the serialization of the current PersistedState (nothing of an earlier, *)
(* longer file survives) and loading it gives back the state saved.        *)
C2_SaveReplacesFile ==
    (LastCmd(CmdSave) /\ last.fault = "none") =>
        /\ disk.file.exists
        /\ StoredText = Serialize(state)
        /\ SameVarsAndHistory(LoadState(disk, "none").state, state)

(* C3  A save during which the storage fails at any step prints a line     *)
(* starting "save failed" and leaves the file as it was; "state saved" is  *)
(* printed only when the whole state was written.                          *)
C3_SaveFailureReported ==
    LastCmd(CmdSave) =>
        /\ last.fault # "none" =>
              /\ Len(Output) = 1
              /\ StartsWith(Output[1], MsgSaveFailed)
              /\ disk.file = last.disk.file
        /\ Output = <<MsgStateSaved>> =>
              /\ disk.file.exists
              /\ StartsWith(StoredText, Serialize(state))

(* C4  In every state after startup vars holds the keys user, host and     *)
(* _vault.                                                                 *)
C4_CoreKeysPresent ==
    {KeyUser, KeyHost, KeyVault} \subseteq DOMAIN state.vars

\* A load whose storage failed, after a set: the keys are there.
C4_Witness ==
    /\ LastCmd(CmdLoad)
    /\ last.fault = "open_efi"
    /\ committed = <<LineSetKV, CmdLoad>>
    /\ {KeyUser, KeyHost, KeyVault} \subseteq DOMAIN state.vars

\* The non-empty lines of a log of commits, in order.
NonEmpty(log) == SelectSeq(log, LAMBDA l : l # <<>>)

IsLoadLine(l) == SplitWhitespace(l) # <<>> /\ Head(SplitWhitespace(l)) = CmdLoad

\* The commits after the last load command of the log (all, when it has none).
SinceLoad(log) ==
    LET at == {i \in 1..Len(log) : IsLoadLine(log[i])}
    IN  IF at = {} THEN log
        ELSE Drop(log, CHOOSE i \in at : \A j \in at : j <= i)

EndsWith(s, t) == Len(t) <= Len(s) /\ SubSeq(s, Len(s) - Len(t) + 1, Len(s)) = t

\* The history a commit of `line` leaves when nothing but the append touches it.
Pushed(h, line) == IF line # <<>> THEN Append(h, line) ELSE h

(* C5, as claimed  Every non-empty committed line is appended to the       *)
(* history and stays there whatever the command, load included; an empty   *)
(* line appends nothing; the history ends with the non-empty lines         *)
(* committed so far.                                                       *)
C5_HistoryKeepsEveryCommit ==
    IsEnter =>
        /\ state.history = Pushed(last.state.history, last.line)
        /\ EndsWith(state.history, NonEmpty(committed))

(* C5, amended  For every command but load the history after the commit is *)
(* the history before it plus the line when the line is not empty; load    *)
(* replaces the history by the loaded one, which keeps neither the load    *)
(* line nor what was committed since the save; the history ends with the   *)
(* non-empty lines committed since the last load.                          *)
C5_HistoryAppendOnlyButLoad ==
    IsEnter =>
        /\ ~LastCmd(CmdLoad) =>
              state.history = Pushed(last.state.history, last.line)
        /\ LastCmd(CmdLoad) =>
              state.history = LoadState(last.disk, last.fault).state.history
        /\ EndsWith(state.history, NonEmpty(SinceLoad(committed)))

\* A command line and then an empty line were committed.
C5_Witness ==
    /\ committed = <<LineSetKV, <<>>>>
    /\ last.line = <<>>
    /\ state.history = last.state.history
    /\ EndsWith(state.history, <<LineSetKV>>)

\* The state the last load_state returned: at boot, or by the load command.
LoadHappened == last.kind = "boot" \/ LastCmd(CmdLoad)

Loaded == IF last.kind = "boot" THEN last.state ELSE state

\* The load could not open a directory.
NoDirectory ==
    \/ last.fault \in {"open_efi", "open_ramos"}
    \/ last.fault = "create" /\ ~(last.disk.efi /\ last.disk.ramos)

\* The directories opened, state.txt is absent or cannot be opened or read.
FileUnreadable ==
    /\ ~NoDirectory
    /\ (~last.disk.file.exists \/ last.fault \in {"open_file", "read"})

BootstrapVars ==
    (KeyUser :> DefaultName) @@ (KeyHost :> DefaultName) @@ (KeyVault :> VaultEncoded)

(* C6  Both fallbacks of load_state give the same bootstrap default: the   *)
(* vars user, host and the seeded _vault, and a history of exactly the two *)
(* hint lines, each once.                                                  *)
C6_FallbackIsBootstrapDefault ==
    (LoadHappened /\ (NoDirectory \/ FileUnreadable)) =>
        /\ Loaded.vars = BootstrapVars
        /\ Loaded.history = <<HintHistory1, HintHistory2>>

\* The load fell back to the bootstrap default: no directory, no readable file,
\* or a file that is not UTF-8.
DefaultUsed ==
    \/ NoDirectory
    \/ FileUnreadable
    \/ ~ValidUtf8(Take(last.disk.file.data, BufSize))

(* C7  The load command never fails: it replaces PersistedState by what    *)
(* load_state returns and ends with "state loaded"; whenever the bootstrap *)
(* default is used because the stored state is missing or corrupt, the     *)
(* line "No prior state found..." comes before the confirmation.           *)
C7_LoadReportsFallback ==
    LastCmd(CmdLoad) =>
        /\ state = LoadState(last.disk, last.fault).state
        /\ lines # <<>> /\ lines[Len(lines)] = MsgStateLoaded
        /\ DefaultUsed => Appended(<<MsgNoPrior, MsgStateLoaded>>)

\* load_state reached parse_state and the whole file was read as text.
FileParsed ==
    /\ LoadHappened
    /\ ~NoDirectory
    /\ ~FileUnreadable
    /\ Len(last.disk.file.data) <= BufSize
    /\ ValidUtf8(last.disk.file.data)

VaultRecord == PrefixKv \o KeyVault \o <<EQ>>

\* The values of the kv:_vault=<v> lines of a text, in order.
VaultValues(text) ==
    LET ls == SelectSeq(LinesOf(text), LAMBDA l : StartsWith(l, VaultRecord))
    IN  [i \in 1..Len(ls) |-> Drop(ls[i], Len(VaultRecord))]

\* The entries of the h: lines of a text, in order.
HistoryEntries(text) ==
    LET ls == SelectSeq(LinesOf(text), LAMBDA l : StartsWith(l, PrefixH))
    IN  [i \in 1..Len(ls) |-> Drop(ls[i], Len(PrefixH))]

(* C8  When the parsed text has a kv:_vault=<v> line, the loaded state has *)
(* vars[_vault] = v of the last such line, not the seeded value, and its   *)
(* history is that of the h: lines alone: no hint line is appended.        *)
C8_ExistingVaultKept ==
    (FileParsed /\ VaultValues(last.disk.file.data) # <<>>) =>
        LET vs == VaultValues(last.disk.file.data)
        IN  /\ Loaded.vars[KeyVault] = vs[Len(vs)]
            /\ Loaded.history = HistoryEntries(last.disk.file.data)

\* A load of the file with two vault lines, after the vault was set to "x".
C8_Witness ==
    /\ committed = <<LineSetVault, CmdLoad>>
    /\ last.fault = "none"
    /\ last.disk.file.data = ForeignFile
    /\ last.state.vars[KeyVault] = <<120>>
    /\ state.vars[KeyVault] = <<101, 65>>
    /\ state.history = <<<<108, 115>>>>

\* The commits before the last one.
Earlier == SubSeq(committed, 1, Len(committed) - 1)

\* `set k v` with both tokens.
IsSetOf(l, k) ==
    LET q == SplitWhitespace(l)
    IN  Len(q) >= 3 /\ q[1] = CmdSet /\ q[2] = k

\* The earlier commits that set k with neither a set of k nor a load after them.
StandingSets(k) ==
    {i \in 1..Len(Earlier) :
        /\ IsSetOf(Earlier[i], k)
        /\ \A j \in (i + 1)..Len(Earlier) :
              ~IsSetOf(Earlier[j], k) /\ ~IsLoadLine(Earlier[j])}

(* C9  get k prints exactly the value of the standing `set k v` (no later  *)
(* set of k, no load in between), and exactly "(unset)" for a key that is  *)
(* not in vars; keys starting with '_' are no exception.                   *)
C9_SetGetAgree ==
    (LastCmd(CmdGet) /\ Len(LastParts) >= 2) =>
        LET k == LastParts[2]
        IN  /\ \A i \in StandingSets(k) :
                  Appended(<<SplitWhitespace(Earlier[i])[3]>>)
            /\ k \notin DOMAIN last.state.vars => Appended(<<MsgUnset>>)

\* `set _vault x` and then `get _vault`, which printed "x".
C9_Witness ==
    /\ committed = <<LineSetVault, LineGetVault>>
    /\ Output = <<<<120>>>>

KnownCommands ==
    {CmdHelp, CmdAbout, CmdClear, CmdEcho, CmdSet, CmdGet, CmdVars, CmdHistory,
     CmdSave, CmdLoad, CmdReboot, CmdShutdown, CmdFlag}

VarsAndHintUnchanged ==
    /\ state.vars = last.state.vars
    /\ state.hints_shown = last.state.hints_shown

(* C10  set without its key or value prints the set usage line, get        *)
(* without a key the get usage line, an unrecognized first token "unknown  *)
(* command"; in each case vars and hints_shown are as before the command.  *)
C10_ErrorsChangeNothing ==
    (IsEnter /\ LastParts # <<>>) =>
        /\ (Head(LastParts) = CmdSet /\ Len(LastParts) < 3) =>
              Appended(<<MsgUsageSet>>) /\ VarsAndHintUnchanged
        /\ (Head(LastParts) = CmdGet /\ Len(LastParts) < 2) =>
              Appended(<<MsgUsageGet>>) /\ VarsAndHintUnchanged
        /\ Head(LastParts) \notin KnownCommands =>
              Appended(<<MsgUnknown>>) /\ VarsAndHintUnchanged

\* `set k` after `set k v`: the usage line, and k still is "v".
C10_Witness ==
    /\ committed = <<LineSetKV, LineSetNoValue>>
    /\ Appended(<<MsgUsageSet>>)
    /\ state.vars[<<107>>] = <<118>>

---------------------------------------------------------------------------
(* The commands that print.                                                *)

\* "_k"
KeyHidden ==
    <<95, 107>>

\* The keys the vars command shows.
VisibleKeys(st) == {k \in DOMAIN st.vars : k = <<>> \/ k[1] # UNDERSCORE}

(* C11  The vars command prints exactly one line key=value for each entry  *)
(* of vars whose key does not start with an underscore, and no line for a  *)
(* key that does, whatever underscore keys (_vault, or one the operator    *)
(* set) are in vars.                                                       *)
C11_VarsHidesUnderscoreKeys ==
    LastCmd(CmdVars) =>
        /\ Appended(Output)
        /\ state.vars = last.state.vars
        /\ Len(Output) = Cardinality(VisibleKeys(state))
        /\ \A k \in VisibleKeys(state) :
              Cardinality({i \in 1..Len(Output) :
                              Output[i] = k \o <<EQ>> \o state.vars[k]}) = 1
        /\ \A i \in 1..Len(Output) : ~StartsWith(Output[i], <<UNDERSCORE>>)

\* vars after the operator set _k: the visible keys are listed, _k and _vault
\* are in vars and not listed.
C11_Witness ==
    /\ committed = <<LineSetHidden, CmdVars>>
    /\ {KeyHidden, KeyVault} \subseteq DOMAIN state.vars
    /\ Len(Output) = Cardinality(DOMAIN state.vars) - 2
    /\ Len(Output) >= 2

\* The line the history command prints for the entry of 0-based index n.
HistoryLine(n, entry) == Decimal(n) \o IndexSep \o entry

(* C12  The history command prints one line "{index}: {entry}" for every   *)
(* entry of the history, indexed from 0 in insertion order; the line was   *)
(* appended to the history before the command ran, so the last line        *)
(* printed is the one of the history command line itself and the number of *)
(* lines printed is the length of the history after that append.           *)
C12_HistoryListsEveryEntry ==
    LastCmd(CmdHistory) =>
        /\ state.history = Append(last.state.history, last.line)
        /\ Len(Output) = Len(state.history)
        /\ Appended(Output)
        /\ \A i \in 1..Len(Output) : Output[i] = HistoryLine(i - 1, state.history[i])
        /\ Output[Len(Output)] = HistoryLine(Len(last.state.history), last.line)

\* history after an echo: the two hints (at least), the echo line as typed and
\* the history line are listed.
C12_Witness ==
    /\ committed = <<LineEcho, CmdHistory>>
    /\ Len(Output) >= 4
    /\ Output[Len(Output) - 1] = HistoryLine(Len(Output) - 2, LineEcho)
    /\ Output[Len(Output)] = HistoryLine(Len(Output) - 1, CmdHistory)

\* "RAMOS{F0und_3ven3_zr_st0nly_in_the_future}"
FlagText ==
    <<82, 65, 77, 79, 83, 123, 70, 48, 117, 110, 100, 95, 51, 118, 101, 110, 51, 95, 122, 114,
      95, 115, 116, 48, 110, 108, 121, 95, 105, 110, 95, 116, 104, 101, 95, 102, 117, 116, 117, 114,
      101, 125>>

\* The current shell with the key _vault taken out of vars.
WithoutVault ==
    [Ctx EXCEPT !.state.vars = [k \in DOMAIN @ \ {KeyVault} |-> @[k]]]

(* C13  The flag command appends exactly one line: the decoded text when   *)
(* vars holds _vault and its value decodes to UTF-8, "vault sealed" when   *)
(* the decoding fails, "nothing here" when the key is absent (no reachable *)
(* state lacks the key, so that arm is run on the current shell with the   *)
(* key removed); with the seeded vault value the line is exactly           *)
(* RAMOS{F0und_3ven3_zr_st0nly_in_the_future}.                             *)
C13_FlagPrintsDecodedVault ==
    /\ LastCmd(CmdFlag) =>
          /\ Len(Output) = 1
          /\ Appended(Output)
          /\ state.vars = last.state.vars
          /\ KeyVault \in DOMAIN state.vars
          /\ LET r == DecodeBase64(state.vars[KeyVault])
             IN  Output = <<IF r.ok THEN r.text ELSE MsgVaultSealed>>
          /\ state.vars[KeyVault] = VaultEncoded => Output = <<FlagText>>
    /\ ExecFlag(WithoutVault).lines = Append(lines, MsgNothingHere)

\* flag on the seeded vault.
C13_Witness ==
    /\ LastCmd(CmdFlag)
    /\ last.state.vars[KeyVault] = VaultEncoded
    /\ Output = <<FlagText>>

\* flag after the operator overwrote the vault with text that decodes to a
\* byte that is not UTF-8, and after one that decodes to no byte at all.
C13_SealedReached ==
    /\ committed = <<LineSetVaultBad, CmdFlag>>
    /\ Output = <<MsgVaultSealed>>

C13_EmptyReached ==
    /\ committed = <<LineSetVault, CmdFlag>>
    /\ Output = << <<>> >>

\* "hi yo"
EchoedWords ==
    <<104, 105, 32, 121, 111>>

\* No space at either end of s and no two spaces in a row.
SingleSpaced(s) ==
    /\ s # <<>> => s[1] # SP /\ s[Len(s)] # SP
    /\ \A i \in 1..(Len(s) - 1) : ~(s[i] = SP /\ s[i + 1] = SP)

(* C14  An echo line, whatever whitespace separates its tokens, prints     *)
(* besides the prompt echo exactly one line: the tokens after "echo", in   *)
(* order, joined by single spaces.                                         *)
C14_EchoJoinsTokens ==
    LastCmd(CmdEcho) =>
        /\ Len(Output) = 1
        /\ Appended(Output)
        /\ SplitWhitespace(Output[1]) = Tail(LastParts)
        /\ SingleSpaced(Output[1])
        /\ state.vars = last.state.vars

\* "echo  hi   yo " printed "hi yo".
C14_Witness ==
    /\ LastCmd(CmdEcho)
    /\ last.line = LineEcho
    /\ Output = <<EchoedWords>>

---------------------------------------------------------------------------
(* decode_base64 against the reference decoder.                            *)

\* The bytes of data before its first '='.
BeforePad(data) ==
    LET at == {i \in 1..Len(data) : data[i] = EQ}
    IN  IF at = {} THEN data
        ELSE Take(data, (CHOOSE i \in at : \A j \in at : i <= j) - 1)

\* The 6-bit values of the alphabet symbols among them, in order.
Sextets(data) ==
    LET kept == SelectSeq(BeforePad(data), LAMBDA b : \E i \in 1..64 : Base64Table[i] = b)
    IN  [i \in 1..Len(kept) |-> (CHOOSE j \in 1..64 : Base64Table[j] = kept[i]) - 1]

\* Bit j (from 0, most significant first) of the sextets laid end to end.
StreamBit(sx, j) == (sx[(j \div 6) + 1] \div (2 ^ (5 - (j % 6)))) % 2

\* Byte k (from 0) of the standard packing; a bit past the last sextet is 0.
PackedByte(sx, k) ==
    LET bit(j) == IF j < 6 * Len(sx) THEN StreamBit(sx, j) ELSE 0
    IN  128 * bit(8 * k) + 64 * bit(8 * k + 1) + 32 * bit(8 * k + 2)
        + 16 * bit(8 * k + 3) + 8 * bit(8 * k + 4) + 4 * bit(8 * k + 5)
        + 2 * bit(8 * k + 6) + bit(8 * k + 7)

\* 3 bytes for each full group of 4, 2 for a trailing 3, 1 for a trailing
\* 2, nothing for a trailing 1 or 0.
ReferenceLength(n) ==
    3 * (n \div 4) + (IF n % 4 = 3 THEN 2 ELSE IF n % 4 = 2 THEN 1 ELSE 0)

ReferenceDecode(data) ==
    LET sx == Sextets(data)
    IN  [k \in 1..ReferenceLength(Len(sx)) |-> PackedByte(sx, k - 1)]

(* C15  For every input, decode_base64 computes the bytes of the reference *)
(* decoder: the alphabet symbols before the first '=' (other bytes         *)
(* skipped, everything from the '=' on ignored), 3 bytes for each full     *)
(* group of 4 symbols, 2 more for a trailing group of 3, 1 for a trailing  *)
(* group of 2, none for 1 or 0, each byte the standard 6-bit packing kept  *)
(* to 8 bits; the call returns the text exactly when the bytes are UTF-8.  *)
C15_DecodeMatchesReference ==
    (call.fn = "decode_base64" /\ call.returned) =>
        /\ call.bytes = ReferenceDecode(call.data)
        /\ \A i \in 1..Len(call.bytes) : call.bytes[i] \in 0..255
        /\ call.result.ok = ValidUtf8(call.bytes)
        /\ call.result.ok => call.result.text = call.bytes

\* "Vq=/A" with a byte to skip in between: symbols follow the '=', the two
\* symbols before it give one byte, 01010110.
C15_Witness ==
    /\ call.fn = "decode_base64" /\ call.returned
    /\ call.data = <<86, 45, 113, EQ, 47>>
    /\ call.bytes = <<86>>

---------------------------------------------------------------------------
(* fill_rect and the frame.                                                *)

FillReturned == call.fn = "fill_rect" /\ call.returned

\* The pixel cells of the buffer, numbered row by row from 0.
Cells == 0..((Len(call.before) \div PxFormat) - 1)

CellRow(p) == p \div call.frame.stride

CellCol(p) == p % call.frame.stride

InRectangle(p) ==
    /\ CellRow(p) >= call.y /\ CellRow(p) < call.y + call.h
    /\ CellCol(p) >= call.x /\ CellCol(p) < call.x + call.w

\* Byte k (0..3) of cell p before and after the call.
Was(p, k) == call.before[(p * PxFormat) + k + 1]

Is(p, k) == call.buffer[(p * PxFormat) + k + 1]

CellUntouched(p) == \A k \in 0..(PxFormat - 1) : Is(p, k) = Was(p, k)

CellFilled(p) ==
    /\ Is(p, 0) = call.color[3]
    /\ Is(p, 1) = call.color[2]
    /\ Is(p, 2) = call.color[1]
    /\ Is(p, 3) = Was(p, 3)

(* C16  fill_rect clips: whatever the rectangle, past the right edge, the  *)
(* bottom edge or the corner included, the buffer keeps its length, the    *)
(* cells inside both the rectangle and the buffer hold the color, and      *)
(* every byte of every cell of a row or column outside the rectangle is    *)
(* as it was.                                                              *)
C16_FillRectClips ==
    FillReturned =>
        /\ Len(call.buffer) = Len(call.before)
        /\ \A p \in Cells :
              IF InRectangle(p) THEN CellFilled(p) ELSE CellUntouched(p)

---------------------------------------------------------------------------
(* draw_text and the right edge.                                           *)

\* n glyphs starting at x end left of the frame's width.
Fits(n) == n = 0 \/ call.x + (8 * n) < call.width

(* C17  draw_text renders the characters left to right at x, x+8, x+16,    *)
(* ... and stops at the first one whose right edge would be at or past the *)
(* width: the number of glyphs is the largest n up to the length of the    *)
(* text with x + 8n < width, and 0 when x + 8 >= width.                    *)
C17_DrawTextStopsAtEdge ==
    (call.fn = "draw_text" /\ call.returned) =>
        LET n == Len(call.glyphs)
        IN  /\ n <= Len(call.text)
            /\ Fits(n)
            /\ \A m \in (n + 1)..Len(call.text) : ~Fits(m)
            /\ call.x + 8 >= call.width => n = 0
            /\ \A i \in 1..n :
                  /\ call.glyphs[i].x = call.x + (8 * (i - 1))
                  /\ call.glyphs[i].y = call.y
                  /\ call.glyphs[i].ch = call.text[i]

\* Three characters from x = 0 in a frame 16 wide: the first is drawn, the
\* right edge of the second would be the width itself.
C17_Witness ==
    /\ call.fn = "draw_text" /\ call.returned
    /\ call.width = 16 /\ call.x = 0 /\ Len(call.text) = 3
    /\ Len(call.glyphs) = 1

---------------------------------------------------------------------------
(* The repaint and the scrollback.                                         *)

Painted == call.fn = "redraw"

\* The rows of the window that hold scrollback.
VisibleLines == ((call.frame.height - 40) - 64) \div 10

\* The draw_text calls of the repaint after the one of the title: the
\* scrollback lines, then the prompt.
TextCalls ==
    Tail(SelectSeq(call.calls, LAMBDA c : c.op = "draw_text"))

ScrollCalls == Take(TextCalls, Len(TextCalls) - 1)

PromptCall == TextCalls[Len(TextCalls)]

Min(a, b) == IF a <= b THEN a ELSE b

(* C18  A repaint shows the tail of the scrollback: with visibleLines =    *)
(* (windowHeight - 64) / 10 it draws the last min(len, visibleLines)       *)
(* scrollback lines, in order, the i-th (from 0) on the row start_y +      *)
(* 10 i, and the prompt "{user}@{host}:> {input}" on the row below the     *)
(* visibleLines rows of the scrollback block, a row no drawn scrollback    *)
(* line is on.                                                             *)
C18_RedrawShowsTail ==
    Painted =>
        LET n == Min(Len(lines), VisibleLines)
        IN  /\ Len(ScrollCalls) = n
            /\ \A i \in 0..(n - 1) :
                  /\ ScrollCalls[i + 1].text = lines[Len(lines) - n + i + 1]
                  /\ ScrollCalls[i + 1].y = 52 + (10 * i)
            /\ PromptCall.text = Prompt(state, input)
            /\ PromptCall.y = 52 + (10 * VisibleLines)
            /\ \A i \in 1..n : ScrollCalls[i].y < PromptCall.y

\* The scrollback is longer than the two rows of the window, the operator is
\* typing: the last two lines and the prompt with the input are painted.
C18_Witness ==
    /\ Painted
    /\ VisibleLines = 2
    /\ Len(lines) > 2
    /\ input # <<>>
    /\ Len(ScrollCalls) = 2
    /\ ScrollCalls[2].text = lines[Len(lines)]
    /\ PromptCall.text = Prompt(state, input)

---------------------------------------------------------------------------
(* Editing the input line.                                                 *)

KeyWas(k) == call.fn = "key" /\ call.key = k

\* The key touched neither the scrollback nor the PersistedState.
ShellUntouched == lines = call.lines /\ state = call.state

\* s without its last character; the empty line stays empty.
WithoutLast(s) == IF s = <<>> THEN <<>> ELSE SubSeq(s, 1, Len(s) - 1)

(* C19  Editing follows the reference semantics: a character key appends   *)
(* the character when it is a printable ASCII graphic or the space         *)
(* (0x20..0x7E) and is dropped otherwise; Backspace removes the last       *)
(* character and does nothing on an empty line; Escape empties the line    *)
(* and commits nothing; Enter hands the whole line to the interpreter and  *)
(* leaves the line empty.  So the line only ever holds characters of       *)
(* 0x20..0x7E, and a character key, Backspace and Escape change neither    *)
(* the scrollback nor the PersistedState.                                  *)
C19_EditingFollowsReference ==
    /\ \A i \in 1..Len(input) : input[i] >= 32 /\ input[i] <= 126
    /\ KeyWas("char") =>
          /\ input = IF call.ch >= 32 /\ call.ch <= 126
                     THEN call.input \o <<call.ch>> ELSE call.input
          /\ ShellUntouched
    /\ KeyWas("backspace") => input = WithoutLast(call.input) /\ ShellUntouched
    /\ KeyWas("escape") => input = <<>> /\ ShellUntouched
    /\ KeyWas("enter") =>
          /\ input = <<>>
          /\ last.line = call.input
          /\ committed = <<call.input>>
          /\ StartsWith(lines, call.lines \o <<Prompt(call.state, call.input)>>)
          /\ state.history = Pushed(call.state.history, call.input)

\* Backspace on a line of two characters, after the commit of the session.
C19_Witness ==
    /\ KeyWas("backspace")
    /\ Len(committed) = 1
    /\ call.input = <<126, SP>>
    /\ input = <<126>>

---------------------------------------------------------------------------
(* The scrollback over the steps of the loop.                              *)

\* The step commits the input line.
Commits == committed' = Append(committed, input)

IsClearLine(l) == SplitWhitespace(l) # <<>> /\ Head(SplitWhitespace(l)) = CmdClear

(* C20  The scrollback is append-only but for clear: a key that commits    *)
(* nothing leaves it as it is; a commit of any line but a clear keeps the  *)
(* lines that were there as a prefix and appends first the prompt echo     *)
(* "{user}@{host}:> {line}" built from the vars before the command runs;   *)
(* right after a clear the scrollback is empty, the echo of the clear line *)
(* included.                                                               *)
C20_ScrollbackAppendOnly ==
    [][IF Commits
       THEN IF IsClearLine(input)
            THEN lines' = <<>>
            ELSE StartsWith(lines', Append(lines, Prompt(state, input)))
       ELSE lines' = lines]_vars

\* vars, then clear: the scrollback that held the boot lines, the two prompt
\* echoes and the listing is empty.
C20_Witness ==
    /\ committed = <<CmdVars, CmdClear>>
    /\ last.lines # <<>>
    /\ lines = <<>>

====
